---------------------------- MODULE Spec2Model ----------------------------
(***************************************************************************)
(* Model of the t-bears JSON-RPC front end                                 *)
(* (src/tbears/server/jsonrpc_server.py): the asyncio request handlers of  *)
(* MockDispatcher, the block height counter, the TxResultMapper cache and  *)
(* the calls the handlers make on the execution backend.                   *)
(*                                                                         *)
(* The server runs on one asyncio event loop: a handler runs without       *)
(* interruption from one `await` of a backend call to the next, and other  *)
(* handlers may run while it is suspended.  Every action below is one such *)
(* uninterrupted segment.                                                  *)
(*                                                                         *)
(* Specifications:                                                         *)
(*   Spec          icx_sendTransaction and icx_getTransactionResult        *)
(*   DispatchSpec  icx_sendTransaction with the queries, hello and the     *)
(*                 bodies dispatch cannot route                            *)
(*   CacheSpec     TxResultMapper alone, under any sequence of puts        *)
(*   HexSpec       integers_to_hex alone, on values of bounded depth       *)
(* server_exit, which stops the server, is not modelled.                   *)
(***************************************************************************)
EXTENDS Integers, Sequences, FiniteSets, Bags, TLC

(***************************************************************************)
(* Bounds of the model.                                                    *)
(***************************************************************************)
\* number of icx_sendTransaction requests the server receives in one run
MaxReqs == 2
\* number of distinct parameter mappings (hence transaction hashes)
MaxTx == 2
\* TxResultMapper(limit_capacity): the capacity the cache is built with
LimitCapacity == 1
\* in the specification of the cache alone: the number of distinct keys put,
\* and the longest order log before a put
MaxKeys == 3
MaxKeyLen == 4
\* nesting depth of the values integers_to_hex is applied to on its own
MaxDepth == 2

(***************************************************************************)
(* Constants of the program and of the jsonrpcserver library it raises     *)
(* through.                                                                *)
(***************************************************************************)
HTTP_BAD_REQUEST == 400
HTTP_OK == 200
HTTP_INTERNAL_ERROR == 500
InvalidParams_code == -32602
ServerError_code == -32000
ParseError_code == -32700
\* the status the backend reports for a transaction that succeeded
SuccessStatus == 1

Reqs == 1..MaxReqs
TxIds == 1..MaxTx

(***************************************************************************)
(* JSON values, tagged with their Python type.                             *)
(***************************************************************************)
PyInt(n) == [t |-> "int", v |-> n]
PyStr(s) == [t |-> "str", v |-> s]
PyDict(d) == [t |-> "dict", v |-> d]
PyList(s) == [t |-> "list", v |-> s]
PyNone == [t |-> "none", v |-> "None"]
PyBool(b) == [t |-> "bool", v |-> b]

HexDigit == <<"0", "1", "2", "3", "4", "5", "6", "7",
              "8", "9", "a", "b", "c", "d", "e", "f">>

RECURSIVE HexDigits(_)
HexDigits(n) ==
    IF n < 16 THEN HexDigit[n + 1]
    ELSE HexDigits(n \div 16) \o HexDigit[(n % 16) + 1]

\* Python's hex(): lowercase, 0x prefix, sign in front
hex(n) == IF n < 0 THEN "-0x" \o HexDigits(-n) ELSE "0x" \o HexDigits(n)

\* integers_to_hex with a second conversion added: a string member is
\* prefixed again
RECURSIVE integers_to_hex_reconverting(_)
integers_to_hex_reconverting(res) ==
    LET conv(x) == IF x.t \in {"dict", "list"} THEN integers_to_hex_reconverting(x)
                   ELSE IF x.t = "int" THEN PyStr(hex(x.v))
                   ELSE IF x.t = "bool" THEN PyStr(hex(IF x.v THEN 1 ELSE 0))
                   ELSE IF x.t = "str" THEN PyStr("0x" \o x.v)
                   ELSE x
    IN IF res.t = "dict" THEN PyDict([k \in DOMAIN res.v |-> conv(res.v[k])])
       ELSE IF res.t = "list" THEN PyList([i \in DOMAIN res.v |-> conv(res.v[i])])
       ELSE res

\* integers_to_hex rewrites the container it is given in place and returns it;
\* a value that is neither a dict nor a list is returned as it is.  A bool is
\* an instance of int: hex(True) is '0x1'.
RECURSIVE integers_to_hex(_)
integers_to_hex(res) ==
    LET conv(x) == IF x.t \in {"dict", "list"} THEN integers_to_hex(x)
                   ELSE IF x.t = "int" THEN PyStr(hex(x.v))
                   ELSE IF x.t = "bool" THEN PyStr(hex(IF x.v THEN 1 ELSE 0))
                   ELSE x
    IN IF res.t = "dict" THEN PyDict([k \in DOMAIN res.v |-> conv(res.v[k])])
       ELSE IF res.t = "list" THEN PyList([i \in DOMAIN res.v |-> conv(res.v[i])])
       ELSE res

(***************************************************************************)
(* create_hash: the transaction hash of a parameter mapping.  Equal         *)
(* parameter mappings have equal hashes, different ones different hashes.  *)
(***************************************************************************)
HashChars == <<"a", "b", "c", "d", "e", "f">>
create_hash(tx) == "0x" \o HashChars[tx]

TxHashes == {create_hash(tx) : tx \in TxIds}

\* the keys put in the specification of the cache alone
CacheKeys == {create_hash(k) : k \in 1..MaxKeys}

(***************************************************************************)
(* Replies of the backend to icx_send_transaction.                         *)
(***************************************************************************)
TxResult(h, s) == PyDict([txHash |-> PyStr(h), status |-> PyInt(s)])
ErrorObject(c, m) == PyDict([code |-> PyInt(c), message |-> PyStr(m)])

BackendErrors == {ErrorObject(100, "insufficient balance")}

\* what the backend may answer to the execution of the transaction with hash h
ExecuteReplies(h) ==
    {PyList(<<TxResult(h, s)>>) : s \in {0, 1}} \cup {PyList(<<>>)} \cup BackendErrors

(***************************************************************************)
(* Responses.                                                              *)
(***************************************************************************)
NoResponse == [kind |-> "none", result |-> PyNone, code |-> 0, message |-> "",
               http_status |-> 0]
ResultResponse(x) == [kind |-> "result", result |-> x, code |-> 0, message |-> "",
                      http_status |-> HTTP_OK]
ErrorResponse(c, m, s) == [kind |-> "error", result |-> PyNone, code |-> c,
                           message |-> m, http_status |-> s]

\* raise GenericJsonRpcServerError(code, message, http_status)
GenericJsonRpcServerError(c, m, s) == ErrorResponse(c, m, s)

\* an exception that is no JsonRpcServerError leaves the handler: the library
\* answers with its ServerError
UnhandledError == ErrorResponse(ServerError_code, "Server error", HTTP_INTERNAL_ERROR)

VARIABLES
    block_height,   \* __block_height
    mapper,         \* TxResultMapper.__mapper: txHash -> stored result
    key_list,       \* TxResultMapper.__key_list: the order log
    calls,          \* the calls issued on the backend so far, a bag
    pc,             \* where the handler of each icx_sendTransaction request is
    req,            \* each icx_sendTransaction request as received
    reply,          \* the backend's reply to the request's execute call
    resp,           \* the response sent for the request
    lookup,         \* the latest icx_getTransactionResult request: its
                    \* parameter, what the handler returned, the response
    other,          \* the request of another kind (a query, hello, a body
                    \* dispatch cannot route): what was received, where its
                    \* handler is, the backend's reply, the response
    hx              \* integers_to_hex on its own: the value given, the value
                    \* returned, the value before the latest application

vars == <<block_height, mapper, key_list, calls, pc, req, reply, resp, lookup,
          other, hx>>

(***************************************************************************)
(* Requests.  The parameters of an icx_sendTransaction request are either  *)
(* one of the valid parameter mappings TxIds, or a mapping on which        *)
(* JsonRpcMessageValidator.validate raises an IconServiceBaseException, or *)
(* one on which it raises another exception.                               *)
(***************************************************************************)
NoRequest == [tx |-> 0, valid |-> "none"]

SendParams == {[tx |-> t, valid |-> "valid"] : t \in TxIds}
                 \cup {[tx |-> 0, valid |-> o] : o \in {"icon_exception", "exception"}}

\* the txHash parameter of an icx_getTransactionResult request; 0: no such field
LookupParams == TxIds \cup {0}

NoLookup == [tx |-> 0, ret |-> PyNone, resp |-> NoResponse]

(***************************************************************************)
(* The bodies dispatch receives besides those of well-formed requests:     *)
(*   malformed    text that is no JSON: json.loads raises JSONDecodeError  *)
(*   undecodable  bytes that are no UTF-8: decode raises UnicodeDecodeError*)
(*   not_object   JSON that is no object: req.get raises AttributeError    *)
(*   no_method    a JSON object without "method": KeyError                 *)
(***************************************************************************)
BadBodies == {"malformed", "undecodable", "not_object", "no_method"}

\* the parameters of an icx_call or icx_getBalance request, by what
\* JsonRpcMessageValidator.validate does on them
QueryParams == {[valid |-> o] : o \in {"valid", "icon_exception", "exception"}}

\* the identifier of a request, echoed in the response to it
RequestId == PyInt(1)

NoOther == [body |-> "none", method |-> "", valid |-> "none", pc |-> "none",
            reply |-> PyNone, resp |-> NoResponse, id |-> PyNone]

NoHex == [res |-> PyNone, ret |-> PyNone, prev |-> PyNone, op |-> "none"]

(***************************************************************************)
(* get_block_height: increments the counter and returns it.                *)
(***************************************************************************)
get_block_height_stale(h) == h

get_block_height(h) == h + 1

(***************************************************************************)
(* TxResultMapper.                                                         *)
(***************************************************************************)
EmptyMapper == [k \in {} |-> PyNone]

len(m) == Cardinality(DOMAIN m)

Remove(m, key) == [k \in DOMAIN m \ {key} |-> m[k]]

\* __check_limit without the del: the log is popped, the entry stays
check_limit_keeping(m, kl) ==
    IF len(m) > LimitCapacity /\ kl # <<>>
    THEN [mapper |-> m, key_list |-> Tail(kl), raised |-> FALSE, evicted |-> {}]
    ELSE [mapper |-> m, key_list |-> kl, raised |-> FALSE, evicted |-> {}]

\* __check_limit: the cache after it, whether it raised, and what it evicted
check_limit(m, kl) ==
    IF len(m) > LimitCapacity
    THEN IF kl = <<>>
         THEN [mapper |-> m, key_list |-> kl, raised |-> TRUE, evicted |-> {}]
         ELSE LET key == kl[1]
              IN IF key \in DOMAIN m
                 THEN [mapper |-> Remove(m, key), key_list |-> Tail(kl),
                       raised |-> FALSE, evicted |-> {key}]
                 ELSE [mapper |-> m, key_list |-> Tail(kl),
                       raised |-> TRUE, evicted |-> {}]
    ELSE [mapper |-> m, key_list |-> kl, raised |-> FALSE, evicted |-> {}]

\* put
put(m, kl, key, value) ==
    LET c == check_limit(m, kl)
    IN IF c.raised THEN c
       ELSE [mapper |-> [k \in DOMAIN c.mapper \cup {key} |->
                            IF k = key THEN value ELSE c.mapper[k]],
             key_list |-> Append(c.key_list, key),
             raised |-> FALSE, evicted |-> c.evicted]

\* __getitem__
getitem_or_none(m, item) ==
    IF item \in DOMAIN m THEN [raised |-> FALSE, value |-> m[item]]
    ELSE [raised |-> FALSE, value |-> PyNone]

getitem(m, item) ==
    IF item \in DOMAIN m THEN [raised |-> FALSE, value |-> m[item]]
    ELSE [raised |-> TRUE, value |-> PyNone]

ServerInit ==
    /\ block_height = 0
    /\ mapper = EmptyMapper
    /\ key_list = <<>>
    /\ calls = EmptyBag
    /\ pc = [r \in Reqs |-> "new"]
    /\ req = [r \in Reqs |-> NoRequest]
    /\ reply = [r \in Reqs |-> PyNone]
    /\ resp = [r \in Reqs |-> NoResponse]
    /\ lookup = NoLookup
    /\ other = NoOther

Init == ServerInit /\ hx = NoHex

(***************************************************************************)
(* validate_jsonrpc_message: returns normally (NoResponse) or raises a     *)
(* GenericJsonRpcServerError.                                              *)
(***************************************************************************)
validate_jsonrpc_message(params) ==
    IF params.valid = "valid" THEN NoResponse
    ELSE IF params.valid = "icon_exception"
         THEN GenericJsonRpcServerError(-32602, "Invalid params", HTTP_BAD_REQUEST)
         ELSE GenericJsonRpcServerError(ServerError_code, "Exception()", HTTP_BAD_REQUEST)

(***************************************************************************)
(* The calls on the backend.                                               *)
(***************************************************************************)
BackendCall(op, r, h) == [op |-> op, req |-> r, blockHeight |-> h]

Issue(call) == calls (+) SetToBag({call})

\* the calls of op made for request r
CallsOf(r, op) == {c \in BagToSet(calls) : c.req = r /\ c.op = op}

\* how many times op was called for request r
CountCalls(r, op) == BagCardinality([c \in CallsOf(r, op) |-> calls[c]])

\* icx_sendTransaction after the reply to execute: the call it makes next,
\* or "raise" when evaluating the reply raises
finalize_call_always_commit(response) ==
    IF response.t # "list" THEN "remove_precommit_state"
    ELSE IF Len(response.v) = 0 THEN "raise"
    ELSE "write_precommit_state"

finalize_call(response) ==
    IF response.t # "list" THEN "remove_precommit_state"
    ELSE IF Len(response.v) = 0 THEN "raise"
    ELSE IF response.v[1].v.status = PyInt(SuccessStatus) THEN "write_precommit_state"
    ELSE "remove_precommit_state"

(***************************************************************************)
(* response_to_json: for a list, stores the first entry under its txHash   *)
(* and returns the txHash; otherwise raises the backend's error.  resp is  *)
(* NoResponse when it returns, the error when it raises.                   *)
(***************************************************************************)
response_to_json_list(response, m, kl) ==
    LET tx_result == response.v[1]
        tx_hash == tx_result.v.txHash
        p == put(m, kl, tx_hash.v, tx_result)
    IN IF p.raised
       THEN [mapper |-> p.mapper, key_list |-> p.key_list, ret |-> PyNone,
             resp |-> UnhandledError]
       ELSE [mapper |-> p.mapper, key_list |-> p.key_list, ret |-> tx_hash,
             resp |-> NoResponse]

response_to_json_same_code(response, m, kl) ==
    IF response.t = "list" THEN response_to_json_list(response, m, kl)
    ELSE [mapper |-> m, key_list |-> kl, ret |-> PyNone,
          resp |-> GenericJsonRpcServerError(response.v.code.v, response.v.message.v,
                                             HTTP_BAD_REQUEST)]

response_to_json(response, m, kl) ==
    IF response.t = "list" THEN response_to_json_list(response, m, kl)
    ELSE [mapper |-> m, key_list |-> kl, ret |-> PyNone,
          resp |-> GenericJsonRpcServerError(-response.v.code.v, response.v.message.v,
                                             HTTP_BAD_REQUEST)]

\* dispatch, after the handler returned: the result as sent
postprocess(result) ==
    IF result.t \in {"dict", "list", "int"} THEN integers_to_hex(result) ELSE result

\* requests are numbered in the order in which they are received
Received(r) == pc[r] = "new" /\ \A q \in Reqs : q < r => pc[q] # "new"

(***************************************************************************)
(* icx_sendTransaction, from the request to the await of the backend's     *)
(* icx_send_transaction.                                                   *)
(***************************************************************************)
icx_sendTransaction_begin(r, params) ==
    /\ Received(r)
    /\ req' = [req EXCEPT ![r] = params]
    /\ LET v == validate_jsonrpc_message(params)
       IN IF v.kind = "error"
          THEN /\ resp' = [resp EXCEPT ![r] = v]
               /\ pc' = [pc EXCEPT ![r] = "done"]
               /\ UNCHANGED <<block_height, calls>>
          ELSE /\ block_height' = get_block_height(block_height)
               /\ calls' = Issue(BackendCall("icx_send_transaction", r, block_height'))
               /\ pc' = [pc EXCEPT ![r] = "await_execute"]
               /\ UNCHANGED resp
    /\ UNCHANGED <<mapper, key_list, reply, lookup, other, hx>>

\* the replies the backend may give to the execute call request r awaits
RepliesTo(r) ==
    IF pc[r] = "await_execute" THEN ExecuteReplies(create_hash(req[r].tx)) ELSE {}

\* the handler with the result stored before the commit or rollback call
icx_sendTransaction_executed_storing(r, response) ==
    /\ pc[r] = "await_execute"
    /\ response \in RepliesTo(r)
    /\ reply' = [reply EXCEPT ![r] = response]
    /\ LET op == finalize_call(response)
       IN IF op = "raise"
          THEN /\ resp' = [resp EXCEPT ![r] = UnhandledError]
               /\ pc' = [pc EXCEPT ![r] = "done"]
               /\ UNCHANGED <<calls, mapper, key_list>>
          ELSE /\ calls' = Issue(BackendCall(op, r, 0))
               /\ pc' = [pc EXCEPT ![r] = "await_finalize"]
               /\ LET j == response_to_json(response, mapper, key_list)
                  IN mapper' = j.mapper /\ key_list' = j.key_list
               /\ UNCHANGED resp
    /\ UNCHANGED <<block_height, req, lookup, other, hx>>

(***************************************************************************)
(* icx_sendTransaction, from the reply to execute to the await of the      *)
(* commit or rollback call.                                                *)
(***************************************************************************)
icx_sendTransaction_executed(r, response) ==
    /\ pc[r] = "await_execute"
    /\ response \in RepliesTo(r)
    /\ reply' = [reply EXCEPT ![r] = response]
    /\ LET op == finalize_call(response)
       IN IF op = "raise"
          THEN /\ resp' = [resp EXCEPT ![r] = UnhandledError]
               /\ pc' = [pc EXCEPT ![r] = "done"]
               /\ UNCHANGED calls
          ELSE /\ calls' = Issue(BackendCall(op, r, 0))
               /\ pc' = [pc EXCEPT ![r] = "await_finalize"]
               /\ UNCHANGED resp
    /\ UNCHANGED <<block_height, mapper, key_list, req, lookup, other, hx>>

(***************************************************************************)
(* icx_sendTransaction, from the return of the commit or rollback call to  *)
(* the response.                                                           *)
(***************************************************************************)
icx_sendTransaction_finalized(r) ==
    /\ pc[r] = "await_finalize"
    /\ LET j == response_to_json(reply[r], mapper, key_list)
       IN /\ mapper' = j.mapper
          /\ key_list' = j.key_list
          /\ resp' = [resp EXCEPT ![r] =
                         IF j.resp.kind = "error" THEN j.resp
                         ELSE ResultResponse(postprocess(j.ret))]
    /\ pc' = [pc EXCEPT ![r] = "done"]
    /\ UNCHANGED <<block_height, calls, req, reply, lookup, other, hx>>

(***************************************************************************)
(* icx_getTransactionResult and the post-processing of its result by       *)
(* dispatch: one uninterrupted segment, the handler awaits nothing.  The   *)
(* handler returns the object the cache holds, and integers_to_hex         *)
(* rewrites that object in place.                                          *)
(***************************************************************************)
icx_getTransactionResult(tx) ==
    /\ LET g == IF tx = 0 THEN [raised |-> TRUE, value |-> PyNone]
                ELSE getitem(mapper, create_hash(tx))
       IN IF g.raised
          THEN /\ lookup' = [tx |-> tx, ret |-> PyNone, resp |->
                              GenericJsonRpcServerError(InvalidParams_code,
                                  "TransactionResult not found", HTTP_BAD_REQUEST)]
               /\ UNCHANGED mapper
          ELSE /\ lookup' = [tx |-> tx, ret |-> g.value,
                             resp |-> ResultResponse(postprocess(g.value))]
               /\ mapper' = IF create_hash(tx) \in DOMAIN mapper
                            THEN [mapper EXCEPT ![create_hash(tx)] = postprocess(g.value)]
                            ELSE mapper
    /\ UNCHANGED <<block_height, key_list, calls, pc, req, reply, resp, other, hx>>

Next ==
    \/ \E r \in Reqs, params \in SendParams : icx_sendTransaction_begin(r, params)
    \/ \E r \in Reqs : \E response \in RepliesTo(r) :
          icx_sendTransaction_executed(r, response)
    \/ \E r \in Reqs : icx_sendTransaction_finalized(r)
    \/ \E tx \in LookupParams : icx_getTransactionResult(tx)

Spec == Init /\ [][Next]_vars

(***************************************************************************)
(* The other requests.  A run has one of them, received at any point       *)
(* between the segments of the icx_sendTransaction handlers.               *)
(***************************************************************************)
\* the module constant: the "id" member of the text is the string "null"
PARSE_ERROR_RESPONSE == [code |-> ParseError_code, message |-> "Parse error",
                         id |-> PyStr("null")]

\* an exception leaves dispatch: no JSON-RPC response is built, the HTTP
\* server answers for the failed handler
EscapedException == [kind |-> "exception", result |-> PyNone, code |-> 0,
                     message |-> "", http_status |-> HTTP_INTERNAL_ERROR]

\* dispatch, lines 232-237, on a body of BadBodies: only JSONDecodeError is
\* caught
dispatch_unroutable(body) ==
    /\ other.pc = "none"
    /\ other' = IF body = "malformed"
                THEN [NoOther EXCEPT !.body = body, !.pc = "done",
                         !.resp = ErrorResponse(PARSE_ERROR_RESPONSE.code,
                                      PARSE_ERROR_RESPONSE.message, HTTP_BAD_REQUEST),
                         !.id = PARSE_ERROR_RESPONSE.id]
                ELSE [NoOther EXCEPT !.body = body, !.pc = "done",
                         !.resp = EscapedException]
    /\ UNCHANGED <<block_height, mapper, key_list, calls, pc, req, reply, resp,
                   lookup, hx>>

\* hello raises Exception()
hello ==
    /\ other.pc = "none"
    /\ other' = [NoOther EXCEPT !.body = "request", !.method = "hello",
                    !.pc = "done", !.resp = UnhandledError, !.id = RequestId]
    /\ UNCHANGED <<block_height, mapper, key_list, calls, pc, req, reply, resp,
                   lookup, hx>>

\* a query handler that calls the backend before it validates
query_begin_call_first(method, params, validated) ==
    /\ other.pc = "none"
    /\ calls' = Issue(BackendCall("icx_call", 0, 0))
    /\ LET v == IF validated THEN validate_jsonrpc_message(params) ELSE NoResponse
       IN other' = [NoOther EXCEPT !.body = "request", !.method = method,
                       !.valid = params.valid, !.id = RequestId,
                       !.pc = IF v.kind = "error" THEN "done" ELSE "await",
                       !.resp = v]
    /\ UNCHANGED <<block_height, mapper, key_list, pc, req, reply, resp,
                   lookup, hx>>

\* a query handler up to its await of the backend's icx_call: the validation
\* if the handler has one, then the call
query_begin(method, params, validated) ==
    /\ other.pc = "none"
    /\ LET v == IF validated THEN validate_jsonrpc_message(params) ELSE NoResponse
       IN IF v.kind = "error"
          THEN /\ other' = [NoOther EXCEPT !.body = "request", !.method = method,
                               !.valid = params.valid, !.id = RequestId,
                               !.pc = "done", !.resp = v]
               /\ UNCHANGED calls
          ELSE /\ other' = [NoOther EXCEPT !.body = "request", !.method = method,
                               !.valid = params.valid, !.id = RequestId,
                               !.pc = "await"]
               /\ calls' = Issue(BackendCall("icx_call", 0, 0))
    /\ UNCHANGED <<block_height, mapper, key_list, pc, req, reply, resp,
                   lookup, hx>>

icx_call(params) == query_begin("icx_call", params, TRUE)

icx_getBalance(params) == query_begin("icx_getBalance", params, TRUE)

icx_getTotalSupply == query_begin("icx_getTotalSupply", [valid |-> "none"], FALSE)

\* what the backend may answer to a query: a value or an error object
QueryReplies == {PyInt(16)} \cup BackendErrors

\* a query handler that also stores what the backend answered
query_returned_storing(response) ==
    /\ other.pc = "await"
    /\ other' = [other EXCEPT !.pc = "done", !.reply = response,
                    !.resp = ResultResponse(postprocess(response))]
    /\ LET p == put(mapper, key_list, other.method, response)
       IN mapper' = p.mapper /\ key_list' = p.key_list
    /\ UNCHANGED <<block_height, calls, pc, req, reply, resp, lookup, hx>>

\* the backend's icx_call returns: the handler returns the reply as it is and
\* dispatch post-processes it
query_returned(response) ==
    /\ other.pc = "await"
    /\ other' = [other EXCEPT !.pc = "done", !.reply = response,
                    !.resp = ResultResponse(postprocess(response))]
    /\ UNCHANGED <<block_height, mapper, key_list, calls, pc, req, reply, resp,
                   lookup, hx>>

\* icx_sendTransaction together with the other requests
DispatchNext ==
    \/ \E r \in Reqs, params \in SendParams : icx_sendTransaction_begin(r, params)
    \/ \E r \in Reqs : \E response \in RepliesTo(r) :
          icx_sendTransaction_executed(r, response)
    \/ \E r \in Reqs : icx_sendTransaction_finalized(r)
    \/ \E params \in QueryParams : icx_call(params)
    \/ \E params \in QueryParams : icx_getBalance(params)
    \/ icx_getTotalSupply
    \/ \E response \in QueryReplies : query_returned(response)
    \/ hello
    \/ \E body \in BadBodies : dispatch_unroutable(body)

DispatchSpec == Init /\ [][DispatchNext]_vars

(***************************************************************************)
(* integers_to_hex on its own, and as dispatch applies it to the result of *)
(* a response, on any value of bounded depth.                              *)
(***************************************************************************)
JsonLeaves == {PyInt(0), PyInt(255), PyInt(-16), PyStr("0xff"), PyStr("score"),
               PyBool(TRUE), PyNone}

RECURSIVE JsonValues(_)
JsonValues(depth) ==
    IF depth = 0 THEN JsonLeaves
    ELSE LET inner == JsonValues(depth - 1)
         IN JsonLeaves
              \cup {PyDict([a |-> x]) : x \in inner}
              \cup {PyDict([a |-> x, b |-> y]) : x \in inner, y \in JsonLeaves}
              \cup {PyList(<<x>>) : x \in inner}

HexInit ==
    /\ ServerInit
    /\ hx \in {[res |-> x, ret |-> x, prev |-> x, op |-> "none"] :
                  x \in JsonValues(MaxDepth)}

\* dispatch, lines 241-243, on the result of a response
dispatch_result ==
    /\ hx.op = "none"
    /\ hx' = [hx EXCEPT !.ret = postprocess(hx.res), !.prev = hx.res,
                        !.op = "dispatch"]
    /\ UNCHANGED <<block_height, mapper, key_list, calls, pc, req, reply, resp,
                   lookup, other>>

\* integers_to_hex applied to the value, then to what it returned
integers_to_hex_call ==
    /\ hx.op \in {"none", "once"}
    /\ hx' = [hx EXCEPT !.ret = integers_to_hex(hx.ret), !.prev = hx.ret,
                        !.op = IF hx.op = "none" THEN "once" ELSE "twice"]
    /\ UNCHANGED <<block_height, mapper, key_list, calls, pc, req, reply, resp,
                   lookup, other>>

HexNext == dispatch_result \/ integers_to_hex_call

HexSpec == HexInit /\ [][HexNext]_vars

(***************************************************************************)
(* The cache alone: any sequence of put calls on a TxResultMapper.         *)
(***************************************************************************)
TxResultMapper_put(key, value) ==
    /\ Len(key_list) < MaxKeyLen
    /\ LET p == put(mapper, key_list, key, value)
       IN /\ mapper' = p.mapper
          /\ key_list' = p.key_list
    /\ UNCHANGED <<block_height, calls, pc, req, reply, resp, lookup, other, hx>>

CacheNext == \E key \in CacheKeys, s \in {0, 1} : TxResultMapper_put(key, TxResult(key, s))

CacheSpec == Init /\ [][CacheNext]_vars

(***************************************************************************)
(* Properties.                                                             *)
(***************************************************************************)
Executed(r) == CountCalls(r, "icx_send_transaction")
Committed(r) == CountCalls(r, "write_precommit_state")
RolledBack(r) == CountCalls(r, "remove_precommit_state")

\* the requests that passed validation and were given a block
Accepted == {r \in Reqs : Executed(r) > 0}

IsResultList(response) == response.t = "list" /\ Len(response.v) > 0

IsSuccess(response) ==
    IsResultList(response) /\ response.v[1].v.status = PyInt(SuccessStatus)

NotFoundError ==
    ErrorResponse(InvalidParams_code, "TransactionResult not found", HTTP_BAD_REQUEST)

\* C1: every icx_sendTransaction request that reached the backend's execute
\* and has been answered had exactly one of commit and rollback called for
\* it, exactly once, whatever the backend replied.
C1_ExactlyOneFinalize ==
    \A r \in Reqs :
        (pc[r] = "done" /\ Executed(r) = 1) => Committed(r) + RolledBack(r) = 1

\* C2: the accepted requests, in the order received, were given the block
\* heights 1, 2, 3, ...: the first accepted one 1, each later one the height
\* of the accepted one before it plus 1, whatever became of them afterwards;
\* every validated request was given one, and no two the same.
C2_HeightsSequential ==
    /\ block_height = Cardinality(Accepted)
    /\ \A r \in Reqs : (req[r].valid = "valid") <=> (r \in Accepted)
    /\ \A r \in Accepted :
          /\ Executed(r) = 1
          /\ \A c \in CallsOf(r, "icx_send_transaction") :
                c.blockHeight = Cardinality({q \in Accepted : q <= r})
    /\ \A c, d \in BagToSet(calls) :
          (c.op = "icx_send_transaction" /\ d.op = "icx_send_transaction"
             /\ c.blockHeight = d.blockHeight) => c = d

\* C2 witness: two accepted requests whose handlers interleave; the later
\* one got height 2 and ended on a backend error while the earlier one, with
\* height 1, still awaits its execute reply.
C2_Witness ==
    /\ pc[1] = "await_execute"
    /\ pc[2] = "done"
    /\ reply[2] \in BackendErrors
    /\ BackendCall("icx_send_transaction", 1, 1) \in BagToSet(calls)
    /\ BackendCall("icx_send_transaction", 2, 2) \in BagToSet(calls)

\* C3: at most one icx_sendTransaction request is between obtaining its
\* block and the return of its commit or rollback call.
C3_Serialized ==
    Cardinality({r \in Reqs : pc[r] \in {"await_execute", "await_finalize"}}) <= 1

\* C4: commit is called for a request if and only if the reply to its
\* execute is a list whose first entry has status 1, and then once; for a
\* list whose first entry has another status rollback is called exactly once
\* and commit not at all.
C4_CommitIffSuccess ==
    \A r \in Reqs :
        /\ Committed(r) = IF IsSuccess(reply[r]) THEN 1 ELSE 0
        /\ (IsResultList(reply[r]) /\ ~IsSuccess(reply[r]))
              => (RolledBack(r) = 1 /\ Committed(r) = 0)

\* C4 witness: one request committed after a status 1 reply, another rolled
\* back after a status 0 reply.
C4_Witness ==
    \E r, q \in Reqs :
        /\ pc[r] = "done" /\ IsSuccess(reply[r]) /\ Committed(r) = 1
        /\ pc[q] = "done" /\ IsResultList(reply[q]) /\ ~IsSuccess(reply[q])
        /\ RolledBack(q) = 1

\* C5: after a reply to execute that is not a list but an error object
\* {code: c, message: m}, rollback has been called once and commit never,
\* the request ends with the error (-c, m, HTTP 400), and the step that
\* surfaces the error comes after the rollback and stores nothing in the
\* cache.
C5_ErrorReplyState ==
    \A r \in Reqs :
        reply[r].t = "dict" =>
            /\ RolledBack(r) = 1 /\ Committed(r) = 0
            /\ pc[r] \in {"await_finalize", "done"}
            /\ pc[r] = "done" =>
                  resp[r] = ErrorResponse(-reply[r].v.code.v, reply[r].v.message.v,
                                          HTTP_BAD_REQUEST)

C5_ErrorReplyStep ==
    \A r \in Reqs :
        (reply[r].t = "dict" /\ pc[r] # "done" /\ pc'[r] = "done") =>
            /\ RolledBack(r) = 1
            /\ UNCHANGED <<mapper, key_list, calls>>

C5_ErrorReplyRollsBack == []C5_ErrorReplyState /\ [][C5_ErrorReplyStep]_vars

\* C5 witness: a request ended with the error -100 "insufficient balance"
\* after its rollback, while the cache holds another request's result.
C5_Witness ==
    \E r \in Reqs :
        /\ pc[r] = "done"
        /\ reply[r] = ErrorObject(100, "insufficient balance")
        /\ resp[r] = ErrorResponse(-100, "insufficient balance", HTTP_BAD_REQUEST)
        /\ RolledBack(r) = 1
        /\ mapper # EmptyMapper

\* C6: the cache never holds more entries than its capacity.
C6_SizeWithinCapacity == len(mapper) <= LimitCapacity

\* C7: a put that finds the cache over capacity evicts exactly the key at
\* position 0 of the order log and leaves every other entry in place; a put
\* that does not find it over capacity evicts nothing.  (Every step of the
\* cache's specification is a put; the key put is the last of the new log.)
C7_PutStep ==
    LET oldest == key_list[1]
        key == key_list'[Len(key_list')]
    IN IF len(mapper) > LimitCapacity
       THEN /\ oldest \in DOMAIN mapper
            /\ key_list' = Append(Tail(key_list), key)
            /\ DOMAIN mapper' = (DOMAIN mapper \ {oldest}) \cup {key}
            /\ \A k \in DOMAIN mapper \ {oldest, key} : mapper'[k] = mapper[k]
       ELSE /\ key_list' = Append(key_list, key)
            /\ DOMAIN mapper' = DOMAIN mapper \cup {key}
            /\ \A k \in DOMAIN mapper \ {key} : mapper'[k] = mapper[k]

C7_EvictsOldest == [][C7_PutStep]_vars

\* C8: a request that got a list reply and committed or rolled back answers
\* with the txHash of the first entry, and what icx_getTransactionResult
\* returns for a stored txHash is a result exactly as a submission stored it.
C8_LookupReturnsStored ==
    /\ \A r \in Reqs :
          (pc[r] = "done" /\ IsResultList(reply[r])) =>
              resp[r] = ResultResponse(reply[r].v[1].v.txHash)
    /\ lookup.resp.kind = "result" =>
          \E r \in Reqs : /\ pc[r] = "done"
                          /\ IsResultList(reply[r])
                          /\ lookup.ret = reply[r].v[1]

\* C9: every value the cache holds is the first entry of a submission's
\* reply as it was put: no operation rewrites a stored result.
C9_StoredImmutable ==
    \A k \in DOMAIN mapper :
        \E r \in Reqs : /\ pc[r] = "done"
                        /\ IsResultList(reply[r])
                        /\ mapper[k] = reply[r].v[1]

\* C10: an icx_getTransactionResult request without a txHash field, or with
\* a txHash the cache does not hold, is answered with the error
\* "TransactionResult not found" (InvalidParams code, HTTP 400) and changes
\* neither the cache, the block height nor the calls on the backend.
C10_LookupMisses(tx) ==
    /\ icx_getTransactionResult(tx)
    /\ (tx = 0 \/ create_hash(tx) \notin DOMAIN mapper)

C10_NotFoundStep ==
    \A tx \in LookupParams :
        C10_LookupMisses(tx) =>
            /\ lookup'.resp = NotFoundError
            /\ UNCHANGED <<mapper, key_list, block_height, calls>>

C10_NotFound == [][C10_NotFoundStep]_vars

\* C10 witness: the latest lookup asked for a txHash the cache does not hold,
\* while it holds another, and was answered "TransactionResult not found".
C10_Witness ==
    /\ lookup.tx \in TxIds
    /\ create_hash(lookup.tx) \notin DOMAIN mapper
    /\ mapper # EmptyMapper
    /\ lookup.resp = NotFoundError

\* validation raises on these parameters
Invalid(params) == validate_jsonrpc_message(params).kind = "error"

\* a JSON-RPC error answered with HTTP 400
Rejected(response) ==
    response.kind = "error" /\ response.http_status = HTTP_BAD_REQUEST

\* the calls issued for request r (0: the request that is no submission)
AllCallsOf(r) == {c \in BagToSet(calls) : c.req = r}

C11_NoCallState ==
    /\ \A r \in Reqs : (pc[r] # "new" /\ Invalid(req[r])) =>
          Rejected(resp[r]) /\ AllCallsOf(r) = {}
    /\ (other.method \in {"icx_call", "icx_getBalance"}
            /\ other.valid \in {"icon_exception", "exception"}) =>
          Rejected(other.resp) /\ AllCallsOf(0) = {}

C11_ValidationStep ==
    /\ \A r \in Reqs, params \in SendParams :
          (Invalid(params) /\ icx_sendTransaction_begin(r, params)) =>
              /\ Rejected(resp'[r]) /\ pc'[r] = "done"
              /\ UNCHANGED <<block_height, mapper, key_list, calls>>
    /\ \A params \in QueryParams :
          (Invalid(params) /\ (icx_call(params) \/ icx_getBalance(params))) =>
              /\ Rejected(other'.resp) /\ other'.pc = "done"
              /\ UNCHANGED <<block_height, mapper, key_list, calls>>

\* C11: when validation fails in icx_sendTransaction, icx_call or
\* icx_getBalance (on an IconServiceBaseException or on any other exception),
\* the request is answered with a JSON-RPC error and HTTP 400 in the step that
\* receives it, that step issues no backend call and leaves the block height
\* and the cache as they were, and no backend call is ever issued for the
\* request.
C11_ValidationFailsFirst == []C11_NoCallState /\ [][C11_ValidationStep]_vars

\* an invalid icx_getBalance and an invalid submission were rejected while the
\* cache held a result and the block height had advanced
C11_Witness ==
    /\ other.method = "icx_getBalance" /\ other.valid = "exception"
    /\ Rejected(other.resp)
    /\ \E r \in Reqs : req[r].valid = "icon_exception" /\ Rejected(resp[r])
    /\ block_height > 0 /\ len(mapper) > 0

\* the request failed: it got no result, or the backend answered with an
\* error object
Fails(response, backend_reply) ==
    response.kind # "result" \/ backend_reply \in BackendErrors

\* a JSON-RPC error envelope with an HTTP 4xx status
Error4xx(response) ==
    response.kind = "error" /\ response.http_status \div 100 = 4

\* C12: every request that failed (unparsable or unroutable body, validation
\* failure, backend error reply, exception in a handler) has been answered
\* with a JSON-RPC error envelope and an HTTP 4xx status: no 5xx, no
\* exception that nothing handles.
C12_FailuresAre4xx ==
    /\ \A r \in Reqs : (pc[r] = "done" /\ Fails(resp[r], reply[r])) => Error4xx(resp[r])
    /\ (other.pc = "done" /\ Fails(other.resp, other.reply)) => Error4xx(other.resp)


\* PARSE_ERROR_RESPONSE as the claim describes it
ParseErrorEnvelope(response, id) ==
    /\ response = ErrorResponse(ParseError_code, "Parse error", HTTP_BAD_REQUEST)
    /\ id = PyNone

C13_ParseErrorState ==
    (other.body \in {"malformed", "undecodable"} /\ other.pc = "done") =>
        /\ ParseErrorEnvelope(other.resp, other.id)
        /\ other.method = "" /\ AllCallsOf(0) = {}

C13_ParseErrorStep ==
    \A body \in {"malformed", "undecodable"} :
        dispatch_unroutable(body) =>
            UNCHANGED <<block_height, mapper, key_list, calls, pc>>

\* C13: a body that is no well-formed JSON is answered with the parse-error
\* envelope (code -32700, message 'Parse error', id null) and HTTP 400; no
\* handler runs for it, and the step leaves the block height, the cache and
\* the calls on the backend as they were.
C13_ParseError == []C13_ParseErrorState /\ [][C13_ParseErrorStep]_vars


\* no int anywhere in the value
RECURSIVE NoInteger(_)
NoInteger(x) ==
    IF x.t \in {"dict", "list"} THEN \A k \in DOMAIN x.v : NoInteger(x.v[k])
    ELSE x.t # "int"

\* y is x with every int leaf replaced by its hex string and every other
\* leaf kept
RECURSIVE Hexed(_, _)
Hexed(x, y) ==
    IF x.t \in {"dict", "list"}
    THEN /\ y.t = x.t
         /\ DOMAIN y.v = DOMAIN x.v
         /\ \A k \in DOMAIN x.v : Hexed(x.v[k], y.v[k])
    ELSE IF x.t = "int" THEN y = PyStr(hex(x.v))
    ELSE y = x

\* C14: when dispatch has post-processed a result that is a dict, a list or
\* an int, the result holds no int at any depth: every int leaf has become
\* its lowercase 0x-prefixed hex string, every other leaf is as it was.
C14_ResultHexed ==
    (hx.op = "dispatch" /\ hx.res.t \in {"dict", "list", "int"}) =>
        NoInteger(hx.ret) /\ Hexed(hx.res, hx.ret)


\* C15: integers_to_hex is idempotent: applied to what it returned for a
\* value, it returns that value again; the hex strings of the first pass are
\* not converted a second time.
C15_Idempotent == hx.op = "twice" => hx.ret = hx.prev

\* both passes were made over a nested value with an int and a hex string,
\* and the first one converted the int
C15_Witness ==
    /\ hx.op = "twice"
    /\ hx.res = PyDict([a |-> PyList(<<PyInt(255)>>), b |-> PyStr("0xff")])
    /\ hx.ret = PyDict([a |-> PyList(<<PyStr("0xff")>>), b |-> PyStr("0xff")])


\* a step of one of the query handlers
QueryStep ==
    \/ \E params \in QueryParams : icx_call(params) \/ icx_getBalance(params)
    \/ icx_getTotalSupply
    \/ \E response \in QueryReplies : query_returned(response)

C16_QueryFrame ==
    QueryStep =>
        /\ UNCHANGED <<block_height, mapper, key_list>>
        /\ calls' = calls \/ calls' = Issue(BackendCall("icx_call", 0, 0))

C16_QueryCalls == \A c \in AllCallsOf(0) : c.op = "icx_call"

\* C16: icx_call, icx_getBalance and icx_getTotalSupply call nothing on the
\* backend but icx_call: no step of theirs issues execute, commit or
\* rollback, advances the block height or changes the cache and its order
\* log, whatever the backend answers to the query.
C16_QueriesReadOnly == []C16_QueryCalls /\ [][C16_QueryFrame]_vars

\* a query was answered with an error object by the backend while a
\* submission was in flight and the cache held a result
C16_Witness ==
    /\ other.method = "icx_getTotalSupply" /\ other.pc = "done"
    /\ other.reply \in BackendErrors
    /\ BackendCall("icx_call", 0, 0) \in BagToSet(calls)
    /\ \E r \in Reqs : pc[r] = "await_finalize"
    /\ len(mapper) > 0 /\ block_height > 1


\* get: the stored value, or None
get(m, key) == IF key \in DOMAIN m THEN m[key] ELSE PyNone

C17_MissingIsNone == \A key \in CacheKeys \ DOMAIN mapper : get(mapper, key) = PyNone

C17_PutStep ==
    \A key \in CacheKeys, s \in {0, 1} :
        TxResultMapper_put(key, TxResult(key, s)) =>
            /\ ~put(mapper, key_list, key, TxResult(key, s)).raised
            /\ get(mapper', key) = TxResult(key, s)

\* C17: in any sequence of put calls, repeated keys included, every
\* put(k, v) returns without raising and get(k) right after it returns v; get
\* of a key that is not stored returns None.
C17_PutThenGet == []C17_MissingIsNone /\ [][C17_PutStep]_vars


\* the handler of a request that stored the result with txHash k has
\* returned, so its commit or rollback call has completed
Finalized(k) ==
    \E r \in Reqs : /\ pc[r] = "done"
                     /\ IsResultList(reply[r])
                     /\ reply[r].v[1].v.txHash.v = k
                     /\ Committed(r) + RolledBack(r) = 1

\* C18: a result is in the cache, and icx_getTransactionResult has returned
\* a result, only for a txHash of a submission whose commit or rollback call
\* has completed; while the submission is in flight its result is not
\* visible.
C18_VisibleAfterFinalize ==
    /\ \A k \in DOMAIN mapper : Finalized(k)
    /\ lookup.resp.kind = "result" => Finalized(create_hash(lookup.tx))

\* a lookup made while the submission of that transaction awaits its commit
\* or rollback call misses, and the cache holds the result of a finished one
C18_Witness ==
    /\ pc[2] = "await_finalize" /\ IsResultList(reply[2])
    /\ lookup.tx = req[2].tx /\ lookup.resp = NotFoundError
    /\ create_hash(req[2].tx) \notin DOMAIN mapper
    /\ pc[1] = "done" /\ req[1].valid = "valid"
    /\ create_hash(req[1].tx) \in DOMAIN mapper


\* the keys the order log names
Logged == {key_list[i] : i \in DOMAIN key_list}

\* C19: after any sequence of put calls on a cache of capacity N the mapping
\* holds at most N + 1 entries, and every key of the mapping is in the order
\* log at least once.
C19_BoundedAndLogged ==
    /\ len(mapper) <= LimitCapacity + 1
    /\ DOMAIN mapper \subseteq Logged

\* the cache holds N + 1 entries while its log still starts with a key that
\* was evicted
C19_Witness ==
    /\ len(mapper) = LimitCapacity + 1
    /\ key_list # <<>> /\ key_list[1] \notin DOMAIN mapper

=============================================================================
